---- MODULE Spec2Model ----
(***************************************************************************)
(* A model of pyqgiswps.executors.processingexecutor.ProcessingExecutor    *)
(* and of the handlers of pyqgiswps.handlers.wpshandler that call it.      *)
(*                                                                         *)
(* The coordinator (one asyncio event loop) runs execute, delete_results,  *)
(* the detached do_execute_async tasks and the periodic _clean_processes;  *)
(* each of its steps between two awaits is one atomic action.  The pool    *)
(* workers run _run_process in other processes and interleave freely with  *)
(* the coordinator.  The status store (logstore), the response object      *)
(* (WPSResponse.update_status) and the pool client are not part of the     *)
(* sources at hand; they are modelled from their documented contract.      *)
(*                                                                         *)
(* Time is counted in ticks, TicksPerSec ticks to the second, so that the  *)
(* int() truncation of a record's timestamp is visible.                    *)
(***************************************************************************)
EXTENDS Integers, FiniteSets, Sequences, TLC

\* ------------------------------------------------------------------ bounds
MaxTime == 3
TicksPerSec == 2
MaxReloads == 2
MaxBatches == 3

\* ------------------------------------------------------- program constants
\* confservice.getint('server','maxqueuesize')
maxqueuesize == 1
\* cfg.getint('response_expiration'), in seconds
expire_default == 1
\* lrucache(50)
lru_capacity == 50

JobIds == {1, 2}
\* StatusHandler.delete may be called without any uuid
NoUuid == 0
\* a key that a record does not hold (rec.get(key) is None)
Absent == -1
\* wps_request.timeout, in seconds
Timeouts == {1}

\* ------------------------------------------------------------------ STATUS
StatusNames ==
    {"NO_STATUS", "STORE_STATUS", "STORE_AND_UPDATE_STATUS", "DONE_STATUS", "ERROR_STATUS"}

\* the value of an enum member; STATUS[name] raises KeyError for any other name
STATUS(name) ==
    CASE name = "NO_STATUS" -> 0
      [] name = "STORE_STATUS" -> 1
      [] name = "STORE_AND_UPDATE_STATUS" -> 2
      [] name = "DONE_STATUS" -> 3
      [] name = "ERROR_STATUS" -> 4

\* a status written under a prior status scheme
LegacyStatus == "LEGACY"

Messages ==
    {"", "Task accepted", "Task started", "Task finished", "Timeout Error",
     "Server busy, please retry later", "Internal Error", "Internal error",
     "handler message"}

\* ----------------------------------------------------------------- records
NoRec ==
    [exists |-> FALSE, status |-> "NO_STATUS", message |-> "", timestamp |-> Absent,
     timeout |-> Absent, expiration |-> Absent, pinned |-> FALSE]

VARIABLES
    records,    \* logstore: job id -> record (NoRec when the store holds none)
    dirs,       \* job id -> whether <workdir>/<uuid> exists
    now,        \* wall clock, in ticks
    used,       \* the uuids handed out so far
    req,        \* job id -> the request of its execute call
    call,       \* job id -> where the execute coroutine stands
    task,       \* job id -> where the detached do_execute_async stands
    wstate,     \* job id -> where the pool worker running _run_process stands
    busy,       \* the pool client's outstanding requests
    deadline,   \* job id -> tick at which the pool call times out
    ev,         \* the coordinator operation that has just completed
    runs,       \* job id -> the workers that are executing its handler
    processes,          \* self.processes: identifier -> its definition
    context_processes,  \* self._context_processes, least recently used first
    generation,         \* the successful (re)loads of the catalog so far
    qgis_enabled,       \* self._factory.qgis_enabled
    ret,                \* the catalog operation that has just completed
    dropped,            \* the cache keys held when the last reload succeeded
    batches             \* the calls of create_contextualized_processes so far

execVars == <<records, dirs, now, used, req, call, task, wstate, busy, deadline, ev, runs>>
catVars == <<processes, context_processes, generation, qgis_enabled, ret, dropped, batches>>
vars == <<execVars, catVars>>

\* op: the operation, id: its job, outcome: what the pool call yielded,
\* res: what the operation returned or raised, http: the handler's HTTP status,
\* pinned: whether the record a delete has met was pinned
NoEv == [op |-> "none", id |-> NoUuid, outcome |-> "", res |-> "", http |-> 0,
         pinned |-> FALSE]
Ev(op, id, outcome, res) ==
    [op |-> op, id |-> id, outcome |-> outcome, res |-> res, http |-> 0, pinned |-> FALSE]

NoReq == [status |-> "NO_STATUS", timeout |-> Absent]
Idle == [pc |-> "idle", err |-> ""]

\* ---------------------------------------------------------------- logstore
\* logstore.log_request: the record of a request that has just been accepted
log_request(wps_request) ==
    [exists |-> TRUE, status |-> "NO_STATUS", message |-> "", timestamp |-> now,
     timeout |-> wps_request.timeout, expiration |-> Absent, pinned |-> FALSE]

\* WPSResponse.update_status(message, percent, status) followed by the store's
\* update of the record: status None keeps the response's own status
update_status(rec, message, status) ==
    IF rec.exists
    THEN [rec EXCEPT !.message = message, !.status = status, !.timestamp = now]
    ELSE rec

\* int(timestamp), in ticks
IntTs(timestamp) == (timestamp \div TicksPerSec) * TicksPerSec

\* ---------------------------------------------------------- delete_results
\* STATUS[rec['status']] < STATUS.DONE_STATUS; a KeyError (legacy status) is
\* passed over, which leaves the test false
\* the same test with <= for <: DONE_STATUS is taken for a status in flight
BelowDone_upto(status) ==
    status \in StatusNames /\ STATUS(status) <= STATUS("DONE_STATUS")

BelowDone(status) ==
    status \in StatusNames /\ STATUS(status) < STATUS("DONE_STATUS")

\* a delete that, like the cleanup, leaves a pinned record where it is
delete_results_unless_pinned(uuid, rmfail) ==
    LET rec == records[uuid] IN
    IF ~rec.exists
    THEN [res |-> "FileNotFoundError", records |-> records, dirs |-> dirs]
    ELSE IF BelowDone(rec.status) \/ rec.pinned
    THEN [res |-> "False", records |-> records, dirs |-> dirs]
    ELSE [res |-> "True",
          records |-> [records EXCEPT ![uuid] = NoRec],
          dirs |-> [dirs EXCEPT ![uuid] = dirs[uuid] /\ rmfail]]

\* the outcome of delete_results(uuid) and the store and directories it leaves;
\* rmfail: shutil.rmtree raises
delete_results(uuid, rmfail) ==
    LET rec == records[uuid] IN
    IF ~rec.exists
    THEN [res |-> "FileNotFoundError", records |-> records, dirs |-> dirs]
    ELSE IF BelowDone(rec.status)
    THEN [res |-> "False", records |-> records, dirs |-> dirs]
    ELSE [res |-> "True",
          records |-> [records EXCEPT ![uuid] = NoRec],
          dirs |-> [dirs EXCEPT ![uuid] = dirs[uuid] /\ rmfail]]

\* the HTTP status StatusHandler.delete answers with
DeleteHttp(res) ==
    CASE res = "FileNotFoundError" -> 404
      [] res = "False" -> 409
      [] res = "True" -> 200

StatusHandler_delete(uuid) ==
    /\ IF uuid = NoUuid
       THEN /\ ev' = [NoEv EXCEPT !.op = "delete", !.res = "Missing uuid", !.http = 400]
            /\ UNCHANGED <<records, dirs>>
       ELSE \E rmfail \in (IF dirs[uuid] THEN BOOLEAN ELSE {FALSE}) :
               LET r == delete_results(uuid, rmfail) IN
               /\ records' = r.records
               /\ dirs' = r.dirs
               /\ ev' = [NoEv EXCEPT !.op = "delete", !.id = uuid, !.res = r.res,
                                      !.http = DeleteHttp(r.res),
                                      !.pinned = records[uuid].pinned]
    /\ UNCHANGED <<now, used, req, call, task, wstate, busy, deadline, runs, catVars>>

\* ----------------------------------------------------------------- execute
\* what the except clauses of the synchronous branch write to the record
\* the timeout clause without its update_status
SyncOnTimeout_silent(rec) == rec

SyncOnTimeout(rec) == update_status(rec, "Timeout Error", "ERROR_STATUS")
\* the saturation clause marking the record as the asynchronous branch does
SyncOnBusy_failed(rec) ==
    update_status(rec, "Server busy, please retry later", "ERROR_STATUS")

SyncOnBusy(rec) == rec
SyncOnBackendError(rec) == rec

\* the error the synchronous branch raises for an outcome of the pool call
SyncError(outcome) ==
    CASE outcome = "TimeoutError" -> "Execute Timeout"
      [] outcome = "MaxRequestsExceeded" -> "Server busy, please retry later"
      [] outcome = "ProcessException" -> "Process Error"
      [] outcome = "Exception" -> "RequestBackendError"

\* what the except clauses of do_execute_async write to the record
AsyncOnTimeout(rec) == update_status(rec, "Timeout Error", "ERROR_STATUS")
AsyncOnBusy(rec) == update_status(rec, "Server busy, please retry later", "ERROR_STATUS")
AsyncOnException(rec) == update_status(rec, "Internal Error", "ERROR_STATUS")

AsyncWrite(rec, outcome) ==
    CASE outcome = "result" -> rec
      [] outcome = "TimeoutError" -> AsyncOnTimeout(rec)
      [] outcome = "MaxRequestsExceeded" -> AsyncOnBusy(rec)
      [] outcome \in {"ProcessException", "Exception"} -> AsyncOnException(rec)

\* how do_execute_async ends for an outcome of the pool call: every exception
\* is caught, none leaves the task
\* do_execute_async without its last clause, `except Exception`
AsyncTaskEnd_leaky(outcome) ==
    IF outcome \in {"ProcessException", "Exception"} THEN "raised" ELSE "done"

AsyncTaskEnd(outcome) == "done"

\* the pool client refuses a request when its queue is full
Saturated == Cardinality(busy) >= maxqueuesize

\* what the awaited pool call of job j can yield now
Outcomes(j) ==
    CASE wstate[j] = "done" -> {"result"}
      [] wstate[j] = "failedPE" -> {"ProcessException"}
      [] wstate[j] = "failedExc" -> {"Exception"}
      [] wstate[j] \in {"queued", "running"} ->
            IF now >= deadline[j] THEN {"TimeoutError"} ELSE {}
      [] OTHER -> {}

RequestStatus == {"NO_STATUS", "STORE_AND_UPDATE_STATUS"}

\* a handler that hands execute any uuid, also one it has handed out before
FreshUuid_repeat(j) == TRUE

\* uuid.uuid1(): an id that was never handed out before (the least one, as
\* the ids are interchangeable)
FreshUuid(j) ==
    /\ j \notin used
    /\ \A i \in JobIds \ used : j <= i

\* an execute that goes to the pool without logging the request first
StartRequest_unlogged(wps_request) == NoRec

\* the first statement of execute, before the pool request is made:
\* logstore.log_request(process.uuid, wps_request)
StartRequest(wps_request) == log_request(wps_request)

\* WPSHandler.handle_wps_request hands execute a fresh uuid
execute(j, wps_request) ==
    /\ FreshUuid(j)
    /\ used' = used \cup {j}
    /\ req' = [req EXCEPT ![j] = wps_request]
    /\ UNCHANGED <<dirs, now, runs, catVars>>
    /\ LET accepted == StartRequest(wps_request) IN
       IF wps_request.status = "STORE_AND_UPDATE_STATUS"
       THEN /\ task' = [task EXCEPT ![j] = "scheduled"]
            /\ records' = [records EXCEPT
                  ![j] = update_status(accepted, "Task accepted", wps_request.status)]
            /\ call' = [call EXCEPT ![j] = [pc |-> "returned", err |-> ""]]
            /\ ev' = Ev("execute", j, "", "document")
            /\ UNCHANGED <<wstate, busy, deadline>>
       ELSE IF Saturated
       THEN /\ records' = [records EXCEPT ![j] = SyncOnBusy(accepted)]
            /\ call' = [call EXCEPT
                  ![j] = [pc |-> "raised", err |-> SyncError("MaxRequestsExceeded")]]
            /\ ev' = Ev("execute", j, "MaxRequestsExceeded", SyncError("MaxRequestsExceeded"))
            /\ UNCHANGED <<task, wstate, busy, deadline>>
       ELSE /\ records' = [records EXCEPT ![j] = accepted]
            /\ call' = [call EXCEPT ![j] = [pc |-> "await", err |-> ""]]
            /\ busy' = busy \cup {j}
            /\ wstate' = [wstate EXCEPT ![j] = "queued"]
            /\ deadline' = [deadline EXCEPT ![j] = now + wps_request.timeout * TicksPerSec]
            /\ ev' = NoEv
            /\ UNCHANGED task

\* the synchronous branch resumes from `await apply_future`
SyncResume(j) ==
    /\ call[j].pc = "await"
    /\ \E outcome \in Outcomes(j) :
          /\ records' = [records EXCEPT
                ![j] = CASE outcome = "TimeoutError" -> SyncOnTimeout(@)
                         [] outcome \in {"ProcessException", "Exception"} -> SyncOnBackendError(@)
                         [] OTHER -> @]
          /\ call' = [call EXCEPT
                ![j] = IF outcome = "result"
                       THEN [pc |-> "returned", err |-> ""]
                       ELSE [pc |-> "raised", err |-> SyncError(outcome)]]
          /\ ev' = Ev("execute", j, outcome,
                   IF outcome = "result" THEN "document" ELSE SyncError(outcome))
    /\ busy' = busy \ {j}
    /\ deadline' = [deadline EXCEPT ![j] = 0]
    /\ UNCHANGED <<dirs, now, used, req, task, wstate, runs, catVars>>

\* the detached task starts: it submits the request to the pool
TaskStart(j) ==
    /\ task[j] = "scheduled"
    /\ IF Saturated
       THEN /\ records' = [records EXCEPT ![j] = AsyncWrite(@, "MaxRequestsExceeded")]
            /\ task' = [task EXCEPT ![j] = AsyncTaskEnd("MaxRequestsExceeded")]
            /\ ev' = Ev("task", j, "MaxRequestsExceeded", AsyncTaskEnd("MaxRequestsExceeded"))
            /\ UNCHANGED <<wstate, busy, deadline>>
       ELSE /\ task' = [task EXCEPT ![j] = "await"]
            /\ busy' = busy \cup {j}
            /\ wstate' = [wstate EXCEPT ![j] = "queued"]
            /\ deadline' = [deadline EXCEPT ![j] = now + req[j].timeout * TicksPerSec]
            /\ ev' = NoEv
            /\ UNCHANGED records
    /\ UNCHANGED <<dirs, now, used, req, call, runs, catVars>>

\* the detached task resumes from `await apply_future`
TaskResume(j) ==
    /\ task[j] = "await"
    /\ \E outcome \in Outcomes(j) :
          /\ records' = [records EXCEPT ![j] = AsyncWrite(@, outcome)]
          /\ task' = [task EXCEPT ![j] = AsyncTaskEnd(outcome)]
          /\ ev' = Ev("task", j, outcome, AsyncTaskEnd(outcome))
    /\ busy' = busy \ {j}
    /\ deadline' = [deadline EXCEPT ![j] = 0]
    /\ UNCHANGED <<dirs, now, used, req, call, wstate, runs, catVars>>

\* ------------------------------------------------------------ _run_process
\* the worker takes the request: its working directory exists, it changes to
\* it and reports 'Task started' (status None: the response keeps its status)
WorkerStart(j) ==
    /\ wstate[j] = "queued"
    /\ wstate' = [wstate EXCEPT ![j] = "running"]
    /\ dirs' = [dirs EXCEPT ![j] = TRUE]
    /\ records' = [records EXCEPT ![j] = update_status(@, "Task started", req[j].status)]
    /\ runs' = [runs EXCEPT ![j] = @ + 1]
    /\ ev' = NoEv
    /\ UNCHANGED <<now, used, req, call, task, busy, deadline, catVars>>

\* how the handler ends and what _run_process then writes
RunEnd(how) ==
    CASE how = "return" ->
            [wstate |-> "done", message |-> "Task finished", status |-> "DONE_STATUS"]
      [] how = "ProcessException" ->
            [wstate |-> "failedPE", message |-> "handler message", status |-> "ERROR_STATUS"]
      [] how = "Exception" ->
            [wstate |-> "failedExc", message |-> "Internal error", status |-> "ERROR_STATUS"]

WorkerEnd(j) ==
    /\ wstate[j] = "running"
    /\ \E how \in {"return", "ProcessException", "Exception"} :
          LET e == RunEnd(how) IN
          /\ wstate' = [wstate EXCEPT ![j] = e.wstate]
          /\ records' = [records EXCEPT ![j] = update_status(@, e.message, e.status)]
    /\ runs' = [runs EXCEPT ![j] = @ - 1]
    /\ ev' = NoEv
    /\ UNCHANGED <<dirs, now, used, req, call, task, busy, deadline, catVars>>

\* --------------------------------------------------------- _clean_processes
\* the decision without the test of the record's pinned flag
Reclaim_anyway(rec, now_ts) ==
    LET timestamp == rec.timestamp
        elapsed == now_ts - IntTs(timestamp)
        dangling0 == timestamp = Absent
        checked == ~dangling0 /\ BelowDone(rec.status)
        dangling == IF checked
                    THEN rec.timeout = Absent \/ elapsed >= rec.timeout * TicksPerSec
                    ELSE dangling0
        expiration == IF rec.expiration = Absent THEN expire_default ELSE rec.expiration
    IN  IF checked /\ ~dangling
        THEN FALSE
        ELSE dangling \/ elapsed >= expiration * TicksPerSec

\* the loop body's decision for one record at time now_ts (ticks):
\* TRUE when the record and its directory are removed
Reclaim(rec, now_ts) ==
    LET timestamp == rec.timestamp
        elapsed == now_ts - IntTs(timestamp)
        dangling0 == timestamp = Absent
        checked == ~dangling0 /\ BelowDone(rec.status)
        dangling == IF checked
                    THEN rec.timeout = Absent \/ elapsed >= rec.timeout * TicksPerSec
                    ELSE dangling0
        expiration == IF rec.expiration = Absent THEN expire_default ELSE rec.expiration
        notpinned == ~rec.pinned
    IN  IF checked /\ ~dangling
        THEN FALSE
        ELSE notpinned /\ (dangling \/ elapsed >= expiration * TicksPerSec)

\* one cycle of the periodic cleanup; rmfails: the directories whose rmtree raises
clean_processes ==
    LET hit == {j \in JobIds : records[j].exists /\ Reclaim(records[j], now)} IN
    /\ \E rmfails \in SUBSET {j \in hit : dirs[j]} :
          dirs' = [j \in JobIds |-> IF j \in hit THEN j \in rmfails ELSE dirs[j]]
    /\ records' = [j \in JobIds |-> IF j \in hit THEN NoRec ELSE records[j]]
    /\ ev' = Ev("clean", NoUuid, "", "")
    /\ UNCHANGED <<now, used, req, call, task, wstate, busy, deadline, runs, catVars>>

\* a cycle that a fault leaves at record k: logstore.delete_response(k) raises,
\* after the rmtree of k's directory; the exception ends the loop and is logged
\* by _run_cleanup.  scanned: the records the loop has passed before k (the
\* order of logstore.records is the store's)
clean_processes_interrupted(k) ==
    LET hit == {j \in JobIds : records[j].exists /\ Reclaim(records[j], now)} IN
    /\ k \in hit
    /\ \E scanned \in SUBSET (JobIds \ {k}) :
       \E rmfails \in SUBSET {j \in hit \cap (scanned \cup {k}) : dirs[j]} :
          /\ dirs' = [j \in JobIds |->
                IF j \in hit \cap (scanned \cup {k}) THEN j \in rmfails ELSE dirs[j]]
          /\ records' = [j \in JobIds |->
                IF j \in hit \cap scanned THEN NoRec ELSE records[j]]
    /\ ev' = Ev("clean", k, "Exception", "Cleanup task failed")
    /\ UNCHANGED <<now, used, req, call, task, wstate, busy, deadline, runs, catVars>>

\* -------------------------------------------------------------------- time
\* a task handed to asyncio.ensure_future starts at the loop's next turn,
\* before the clock moves on
Tick ==
    /\ now < MaxTime
    /\ \A j \in JobIds : task[j] # "scheduled"
    /\ now' = now + 1
    /\ ev' = NoEv
    /\ UNCHANGED <<records, dirs, used, req, call, task, wstate, busy, deadline, runs, catVars>>

\* ----------------------------------------------------------------- catalog
Idents == {"p", "q"}
MapUris == {"m1", "m2"}
NoMap == "None"
\* the identifier lists of the requests
Requests == {<<"p">>, <<"q">>, <<"p", "q">>}

\* created: the catalog load a definition stems from; batch: the call of
\* create_contextualized_processes that made it (0: a base definition)
NoDef == [identifier |-> "", map_uri |-> NoMap, created |-> Absent, batch |-> 0]
\* a definition made by the factory now
NewDef(ident, map_uri) ==
    [identifier |-> ident, map_uri |-> map_uri, created |-> generation, batch |-> batches + 1]

NoRet == [op |-> "none", res |-> "", map_uri |-> NoMap, defs |-> <<>>]

\* lrucache: a sequence of <<key, value>>, least recently used first
LruHas(lru, key) == \E i \in 1..Len(lru) : lru[i][1] = key
LruDrop(lru, key) == SelectSeq(lru, LAMBDA e : e[1] # key)
LruValue(lru, key) == (CHOOSE i \in 1..Len(lru) : lru[i][1] = key)
\* lru[key] = value: the entry becomes the most recent one, and the least
\* recently used entry leaves a full cache
LruPut(lru, key, value) ==
    LET kept == LruDrop(lru, key)
        room == IF Len(kept) >= lru_capacity THEN Tail(kept) ELSE kept
    IN  Append(room, <<key, value>>)
\* lru[key]: the entry becomes the most recent one
LruTouch(lru, key) ==
    LET e == lru[LruValue(lru, key)] IN Append(LruDrop(lru, key), e)

RECURSIVE LruPutAll(_, _)
LruPutAll(lru, defs) ==
    IF defs = <<>> THEN lru
    ELSE LruPutAll(LruPut(lru, <<Head(defs).map_uri, Head(defs).identifier>>, Head(defs)),
                   Tail(defs))

RECURSIVE LruTouchAll(_, _)
LruTouchAll(lru, keys) ==
    IF keys = <<>> THEN lru ELSE LruTouchAll(LruTouch(lru, Head(keys)), Tail(keys))

\* a miss answered by making anew only the definitions the cache lacks
specialize_missing(identifiers, map_uri) ==
    [i \in 1..Len(identifiers) |->
        IF LruHas(context_processes, <<map_uri, identifiers[i]>>)
        THEN context_processes[LruValue(context_processes, <<map_uri, identifiers[i]>>)][2]
        ELSE NewDef(identifiers[i], map_uri)]

\* self._factory.create_contextualized_processes(identifiers, map_uri=map_uri)
create_contextualized_processes(identifiers, map_uri) ==
    [i \in 1..Len(identifiers) |-> NewDef(identifiers[i], map_uri)]

\* the miss branch of get_processes: the whole list of requested identifiers,
\* not only the missing ones, goes to the factory
specialize_all(identifiers, map_uri) ==
    create_contextualized_processes(identifiers, map_uri)

\* the result of get_processes, the cache it leaves, and whether it has called
\* the factory (made)
get_processes(identifiers, map_uri) ==
    IF \E i \in 1..Len(identifiers) : processes[identifiers[i]] = NoDef
    THEN [res |-> "UnknownProcessError", defs |-> <<>>, cache |-> context_processes,
          made |-> FALSE]
    ELSE LET base == [i \in 1..Len(identifiers) |-> processes[identifiers[i]]]
             keys == [i \in 1..Len(identifiers) |-> <<map_uri, identifiers[i]>>]
         IN  IF qgis_enabled /\ map_uri # NoMap
             THEN IF \E i \in 1..Len(keys) : ~LruHas(context_processes, keys[i])
                  THEN LET made == specialize_all(identifiers, map_uri)
                       IN  [res |-> "ok", defs |-> made,
                            cache |-> LruPutAll(context_processes, made), made |-> TRUE]
                  ELSE [res |-> "ok",
                        defs |-> [i \in 1..Len(keys) |->
                                    context_processes[LruValue(context_processes, keys[i])][2]],
                        cache |-> LruTouchAll(context_processes, keys), made |-> FALSE]
             ELSE [res |-> "ok", defs |-> base, cache |-> context_processes, made |-> FALSE]

GetProcesses(identifiers, map_uri) ==
    LET r == get_processes(identifiers, map_uri) IN
    /\ r.made => batches < MaxBatches
    /\ batches' = IF r.made THEN batches + 1 ELSE batches
    /\ context_processes' = r.cache
    /\ ret' = [op |-> "get_processes", res |-> r.res, map_uri |-> map_uri, defs |-> r.defs]
    /\ UNCHANGED <<processes, generation, qgis_enabled, dropped, execVars>>

\* a reload that forgets to clear the cache
ReloadCache_kept(lru) == lru

\* what a successful reload leaves in the cache: self._context_processes.clear()
ReloadCache(lru) == <<>>

\* reload_qgis_processes; outcome: how factory.create_qgis_processes() ends,
\* found: the identifiers it finds
reload_qgis_processes(outcome, found) ==
    /\ IF qgis_enabled /\ outcome = "return"
       THEN /\ generation < MaxReloads
            /\ generation' = generation + 1
            /\ processes' = [id \in Idents |->
                  IF id \in found
                  THEN [identifier |-> id, map_uri |-> NoMap, created |-> generation + 1, batch |-> 0]
                  ELSE NoDef]
            /\ context_processes' = ReloadCache(context_processes)
            /\ dropped' = {context_processes[i][1] : i \in 1..Len(context_processes)}
            /\ ret' = [NoRet EXCEPT !.op = "reload", !.res = "reloaded"]
       ELSE /\ UNCHANGED <<generation, processes, context_processes, dropped>>
            /\ ret' = [NoRet EXCEPT !.op = "reload",
                          !.res = IF ~qgis_enabled THEN "disabled"
                                  ELSE IF outcome = "ProcessException" THEN "logged"
                                  ELSE "raised"]
    /\ UNCHANGED <<qgis_enabled, batches, execVars>>

\* ----------------------------------------------------------- specification
\* records found in the store at start-up, written by earlier runs
StoredRecords ==
    [exists : {TRUE},
     status : {"STORE_AND_UPDATE_STATUS", "DONE_STATUS", "ERROR_STATUS", LegacyStatus},
     message : {""},
     timestamp : {Absent, 0, 1},
     timeout : {Absent} \cup Timeouts,
     expiration : {Absent, 2},
     pinned : BOOLEAN]

\* the executor before any request, with the store as earlier runs left it;
\* the clock stands half a second after a whole second
ExecInit ==
    /\ records \in [JobIds -> {NoRec} \cup StoredRecords]
    /\ \A j \in JobIds : records[j].exists => \A i \in JobIds : i < j => records[i].exists
    /\ dirs = [j \in JobIds |-> records[j].exists]
    /\ now = 1
    /\ used = {j \in JobIds : records[j].exists}
    /\ req = [j \in JobIds |-> NoReq]
    /\ call = [j \in JobIds |-> Idle]
    /\ task = [j \in JobIds |-> "none"]
    /\ wstate = [j \in JobIds |-> "none"]
    /\ busy = {}
    /\ deadline = [j \in JobIds |-> 0]
    /\ ev = NoEv
    /\ runs = [j \in JobIds |-> 0]

\* the store empty
ExecIdle ==
    /\ records = [j \in JobIds |-> NoRec]
    /\ dirs = [j \in JobIds |-> FALSE]
    /\ now = 0
    /\ used = {}
    /\ req = [j \in JobIds |-> NoReq]
    /\ call = [j \in JobIds |-> Idle]
    /\ task = [j \in JobIds |-> "none"]
    /\ wstate = [j \in JobIds |-> "none"]
    /\ busy = {}
    /\ deadline = [j \in JobIds |-> 0]
    /\ ev = NoEv
    /\ runs = [j \in JobIds |-> 0]

\* __init__: the processes handed to the constructor, an empty cache
CatalogInit ==
    /\ qgis_enabled \in BOOLEAN
    /\ \E found \in SUBSET Idents \ {{}} :
          processes = [id \in Idents |->
              IF id \in found
              THEN [identifier |-> id, map_uri |-> NoMap, created |-> 0, batch |-> 0]
              ELSE NoDef]
    /\ context_processes = <<>>
    /\ generation = 0
    /\ ret = NoRet
    /\ dropped = {}
    /\ batches = 0

CatalogIdle ==
    /\ qgis_enabled = TRUE
    /\ processes = [id \in Idents |-> [identifier |-> id, map_uri |-> NoMap, created |-> 0, batch |-> 0]]
    /\ context_processes = <<>>
    /\ generation = 0
    /\ ret = NoRet
    /\ dropped = {}
    /\ batches = 0

Init == ExecInit /\ CatalogIdle

Next ==
    \/ \E uuid \in JobIds \cup {NoUuid} : StatusHandler_delete(uuid)
    \/ \E j \in JobIds, st \in RequestStatus, t \in Timeouts :
          execute(j, [status |-> st, timeout |-> t])
    \/ \E j \in JobIds : SyncResume(j)
    \/ \E j \in JobIds : TaskStart(j)
    \/ \E j \in JobIds : TaskResume(j)
    \/ \E j \in JobIds : WorkerStart(j)
    \/ \E j \in JobIds : WorkerEnd(j)
    \/ clean_processes
    \/ Tick

Spec == Init /\ [][Next]_vars

\* the executor with a store whose delete_response can fail
ReaperNext ==
    \/ Next
    \/ \E k \in JobIds : clean_processes_interrupted(k)

ReaperSpec == Init /\ [][ReaperNext]_vars

\* the catalog operations alone
CatalogNext ==
    \/ \E ids \in Requests, m \in MapUris \cup {NoMap} : GetProcesses(ids, m)
    \/ \E outcome \in {"return", "ProcessException", "Exception"},
          found \in SUBSET Idents \ {{}} : reload_qgis_processes(outcome, found)

CatalogStart == ExecIdle /\ CatalogInit

CatalogSpec == CatalogStart /\ [][CatalogNext]_vars

\* ================================================================== claims
InFlight == {"NO_STATUS", "STORE_STATUS", "STORE_AND_UPDATE_STATUS"}
Terminal == {"DONE_STATUS", "ERROR_STATUS"}

\* C1: a delete of a job id has exactly three outcomes.  Without a record it
\* raises FileNotFoundError (HTTP 404) and changes nothing; with a record whose
\* status is below DONE it returns False (HTTP 409) and leaves the record and
\* the working directory as they are; with a terminal record it returns True
\* and the record is gone, so that a second delete finds no record.
C1_DeleteOutcomes ==
    [][(ev'.op = "delete" /\ ev'.id # NoUuid) =>
        LET rec == records[ev'.id] IN
        /\ ev'.res \in {"FileNotFoundError", "False", "True"}
        /\ ~rec.exists =>
              /\ ev'.res = "FileNotFoundError" /\ ev'.http = 404
              /\ records' = records /\ dirs' = dirs
        /\ (rec.exists /\ rec.status \in InFlight) =>
              /\ ev'.res = "False" /\ ev'.http = 409
              /\ records' = records /\ dirs' = dirs
        /\ (rec.exists /\ rec.status \in Terminal) =>
              /\ ev'.res = "True"
              /\ ~records'[ev'.id].exists
              /\ \A i \in JobIds \ {ev'.id} : records'[i] = records[i]
    ]_vars

\* a terminal record has just been deleted
C1_Witness ==
    /\ ev.op = "delete" /\ ev.res = "True"
    /\ ~records[ev.id].exists

\* C2 as stated: whenever the pool call of a synchronous execute has ended
\* with a timeout, the caller has received 'Execute Timeout' and a status
\* query made right then finds the job's record FAILED with the timeout message.
C2_TimeoutRecordFailed ==
    (ev.op = "execute" /\ ev.outcome = "TimeoutError") =>
        /\ ev.res = "Execute Timeout"
        /\ call[ev.id] = [pc |-> "raised", err |-> "Execute Timeout"]
        /\ records[ev.id].exists
        /\ records[ev.id].status = "ERROR_STATUS"
        /\ records[ev.id].message = "Timeout Error"

\* C2 amended: whenever the pool call of a synchronous execute has ended with
\* a timeout, the caller has received 'Execute Timeout', and the job's record,
\* unless the reaper has removed it as dangling while the call was waiting, is
\* FAILED with the timeout message at a status query made right then.
C2_TimeoutWritesFailed ==
    (ev.op = "execute" /\ ev.outcome = "TimeoutError") =>
        /\ ev.res = "Execute Timeout"
        /\ call[ev.id] = [pc |-> "raised", err |-> "Execute Timeout"]
        /\ records[ev.id].exists =>
              /\ records[ev.id].status = "ERROR_STATUS"
              /\ records[ev.id].message = "Timeout Error"

\* a synchronous call has just timed out and its record is FAILED
C2_Witness ==
    /\ ev.op = "execute" /\ ev.outcome = "TimeoutError"
    /\ records[ev.id].exists
    /\ records[ev.id].status = "ERROR_STATUS"

Failures == {"TimeoutError", "MaxRequestsExceeded", "ProcessException", "Exception"}

\* C3 as stated: when the pool call of an asynchronous execute has yielded a
\* timeout, a rejection or any other exception, the detached task has ended
\* without raising and the job's record is FAILED.
C3_AsyncFailureRecorded ==
    (ev.op = "task" /\ ev.outcome \in Failures) =>
        /\ ev.res = "done"
        /\ records[ev.id].exists
        /\ records[ev.id].status = "ERROR_STATUS"

\* C3 amended: an asynchronous execute returns the document without raising;
\* whatever the pool call yields later, the detached task ends without raising,
\* no execute call changes its state and no other job's record changes; on a
\* timeout, a rejection or any other exception the job's record, if the store
\* still holds it, is FAILED.
C3_AsyncFailuresSwallowed ==
    [][/\ (ev'.op = "execute" /\ req'[ev'.id].status = "STORE_AND_UPDATE_STATUS") =>
              /\ ev'.res = "document"
              /\ call'[ev'.id].pc = "returned"
       /\ ev'.op = "task" =>
              /\ ev'.res = "done"
              /\ task'[ev'.id] = "done"
              /\ call[ev'.id].pc = "returned"
              /\ call' = call
              /\ \A i \in JobIds \ {ev'.id} : records'[i] = records[i]
              /\ (ev'.outcome \in Failures /\ records[ev'.id].exists) =>
                    /\ records'[ev'.id].exists
                    /\ records'[ev'.id].status = "ERROR_STATUS"
    ]_vars

\* the detached task has just recorded a failure of the pool call
C3_Witness ==
    /\ ev.op = "task" /\ ev.outcome \in Failures
    /\ ev.res = "done"
    /\ records[ev.id].status = "ERROR_STATUS"
    /\ call[ev.id].pc = "returned"

\* C4: when the pool refuses a synchronous submission as saturated, the call
\* fails with 'Server busy, please retry later', which is neither the timeout
\* nor the process error, and the job's record is the one written at
\* acceptance: nothing else has been written to it, and it is not FAILED.
C4_BusyLeavesRecord ==
    (ev.op = "execute" /\ ev.outcome = "MaxRequestsExceeded") =>
        /\ ev.res = "Server busy, please retry later"
        /\ ev.res \notin {"Execute Timeout", "Process Error"}
        /\ call[ev.id] = [pc |-> "raised", err |-> "Server busy, please retry later"]
        /\ records[ev.id] =
              [exists |-> TRUE, status |-> "NO_STATUS", message |-> "",
               timestamp |-> now, timeout |-> req[ev.id].timeout,
               expiration |-> Absent, pinned |-> FALSE]
        /\ wstate[ev.id] = "none"

\* a synchronous call has just been refused by the saturated pool
C4_Witness ==
    /\ ev.op = "execute" /\ ev.outcome = "MaxRequestsExceeded"
    /\ Cardinality(busy) >= maxqueuesize
    /\ records[ev.id].exists

\* C5: once the worker has marked the record FAILED with the message of the
\* handler's ProcessException, that status and message stay the record's
\* content as long as the record exists: no step of the Scheduler, in either
\* mode, overwrites them.
C5_HandlerMessageStays ==
    [][\A j \in JobIds :
          (/\ wstate[j] = "failedPE"
           /\ records[j].exists
           /\ records[j].status = "ERROR_STATUS"
           /\ records[j].message = "handler message"
           /\ records'[j].exists) =>
              /\ records'[j].status = "ERROR_STATUS"
              /\ records'[j].message = "handler message"
    ]_vars

\* C6: every synchronous execute call that fails ends in one of three error
\* kinds, timeout, overloaded or process error; a worker failure that is no
\* ProcessException reaches the caller as one of them too, never as the raw
\* error of the pool.
C6_ThreeErrorKinds ==
    \A j \in JobIds :
        call[j].pc = "raised" =>
            call[j].err \in {"Execute Timeout", "Server busy, please retry later",
                             "Process Error"}

\* now - timestamp >= seconds, the timestamp taken as it is
Aged(rec, seconds) ==
    rec.timestamp # Absent /\ now - rec.timestamp >= seconds * TicksPerSec

\* C7: a record that is terminal, not pinned and older than its expiration (its
\* own, or the server's default when it has none) at the start of a cleanup
\* cycle has neither a record nor a working directory after that cycle.
C7_ExpiredRemoved ==
    [][ev'.op = "clean" =>
          \A j \in JobIds :
             (/\ records[j].exists
              /\ records[j].status \in Terminal
              /\ ~records[j].pinned
              /\ Aged(records[j], IF records[j].expiration = Absent
                                  THEN expire_default ELSE records[j].expiration)) =>
                 /\ ~records'[j].exists
                 /\ ~dirs'[j]
    ]_vars

\* C9: a record that is not pinned, has a status below DONE, a timestamp and a
\* timeout, and is older than its timeout at the start of a cleanup cycle has
\* neither a record nor a working directory after that cycle, whatever its
\* expiration.
C9_DanglingRemoved ==
    [][ev'.op = "clean" =>
          \A j \in JobIds :
             (/\ records[j].exists
              /\ records[j].status \in InFlight
              /\ ~records[j].pinned
              /\ records[j].timeout # Absent
              /\ Aged(records[j], records[j].timeout)) =>
                 /\ ~records'[j].exists
                 /\ ~dirs'[j]
    ]_vars

\* C8: a cleanup cycle leaves every pinned record and its working directory
\* as they are, whatever the record's status, timestamp (absent or not),
\* timeout and expiration.
C8_PinnedSurvives ==
    [][ev'.op = "clean" =>
          \A j \in JobIds :
             (records[j].exists /\ records[j].pinned) =>
                 /\ records'[j] = records[j]
                 /\ dirs'[j] = dirs[j]
    ]_vars

\* a cleanup cycle has just passed over a pinned record that an unpinned
\* record would not have survived: it has no timestamp, or is past its
\* expiration
C8_Witness ==
    /\ ev.op = "clean"
    /\ \E j \in JobIds :
          /\ records[j].exists /\ records[j].pinned /\ dirs[j]
          /\ \/ records[j].timestamp = Absent
             \/ /\ records[j].status \in Terminal
                /\ Aged(records[j], IF records[j].expiration = Absent
                                    THEN expire_default ELSE records[j].expiration)

\* C10: right after a successful reload the context cache is empty; at all
\* times every cached definition was made since the last successful reload;
\* and every get_processes with a context key returns only definitions made
\* since the last successful reload, for the context it was asked for.
C10_ReloadInvalidates ==
    /\ (ret.op = "reload" /\ ret.res = "reloaded") => context_processes = <<>>
    /\ \A i \in 1..Len(context_processes) :
          context_processes[i][2].created = generation
    /\ (ret.op = "get_processes" /\ ret.res = "ok" /\ ret.map_uri # NoMap
            /\ qgis_enabled) =>
          \A i \in 1..Len(ret.defs) :
             /\ ret.defs[i].created = generation
             /\ ret.defs[i].map_uri = ret.map_uri

\* get_processes has just answered for a key that was cached when the last
\* reload succeeded
C10_Witness ==
    /\ ret.op = "get_processes" /\ ret.res = "ok"
    /\ generation >= 1
    /\ \E i \in 1..Len(ret.defs) :
          /\ <<ret.map_uri, ret.defs[i].identifier>> \in dropped
          /\ ret.defs[i].created = generation

\* C11: when the catalog fails during a reload, the live job set is the one
\* that was active before the call, the cache is as it was, and the fault does
\* not leave the reload call: it is logged there.
C11_ReloadFailureContained ==
    [][(ret'.op = "reload" /\ ret'.res \in {"logged", "raised"}) =>
          /\ processes' = processes
          /\ context_processes' = context_processes
          /\ ret'.res = "logged"
    ]_vars

\* the cached definition of a key
Cached(lru, key) == lru[LruValue(lru, key)][2]

\* C12: a get_processes with a context key, when the factory specializes: if
\* the cache lacks one of the requested (context key, identifier) pairs, one
\* call of the factory makes every requested definition anew, all of them are
\* returned and each replaces its cache entry; if the cache holds them all,
\* the cached definitions are returned and the factory is not called.
C12_BatchOnAnyMiss ==
    [][(/\ ret'.op = "get_processes" /\ ret'.res = "ok"
        /\ ret'.map_uri # NoMap /\ qgis_enabled) =>
          LET defs == ret'.defs
              key(i) == <<ret'.map_uri, defs[i].identifier>>
          IN  IF \E i \in 1..Len(defs) : ~LruHas(context_processes, key(i))
              THEN /\ batches' = batches + 1
                   /\ \A i \in 1..Len(defs) :
                         /\ defs[i].batch = batches'
                         /\ defs[i].created = generation
                         /\ LruHas(context_processes', key(i))
                         /\ Cached(context_processes', key(i)) = defs[i]
              ELSE /\ batches' = batches
                   /\ \A i \in 1..Len(defs) :
                         /\ defs[i] = Cached(context_processes, key(i))
                         /\ Cached(context_processes', key(i)) = defs[i]
    ]_vars

\* a request for two identifiers, one of which the cache already held, has
\* just been answered by a second batch that made both
C12_Witness ==
    /\ ret.op = "get_processes" /\ ret.res = "ok" /\ ret.map_uri # NoMap
    /\ qgis_enabled /\ generation = 0
    /\ Len(ret.defs) = 2
    /\ batches = 2
    /\ Len(context_processes) = 2
    /\ \A i \in 1..2 : ret.defs[i].batch = 2

C14_StatusMonotonic ==
    [][\A j \in JobIds :
          (/\ records[j].exists
           /\ records[j].status \in Terminal
           /\ records'[j].exists) =>
              records'[j].status \in Terminal
    ]_vars

\* C15: right after an asynchronous execute has returned, the job's record is
\* there, not terminal, with 'Task accepted'; and when the pool has accepted
\* the unit and the handler returns without fault before the timeout of the
\* pool call, the record shows DONE with the worker's result.
C15_AsyncEndToEnd ==
    [][/\ (ev'.op = "execute" /\ req'[ev'.id].status = "STORE_AND_UPDATE_STATUS") =>
              /\ ev'.res = "document"
              /\ records'[ev'.id].exists
              /\ records'[ev'.id].status = "STORE_AND_UPDATE_STATUS"
              /\ records'[ev'.id].message = "Task accepted"
       /\ \A j \in JobIds :
              (/\ req[j].status = "STORE_AND_UPDATE_STATUS"
               /\ task[j] = "await"
               /\ wstate[j] = "running" /\ wstate'[j] = "done"
               /\ now < deadline[j]) =>
                  /\ records'[j].exists
                  /\ records'[j].status = "DONE_STATUS"
                  /\ records'[j].message = "Task finished"
    ]_vars

\* C16: a fault met while a cleanup cycle handles one record does not end the
\* scan: every other record that the cycle finds to reclaim is removed from
\* the store in that same cycle.
C16_ScanGoesOn ==
    [][ev'.op = "clean" =>
          \A j \in JobIds :
             (/\ records[j].exists
              /\ Reclaim(records[j], now)
              /\ j # ev'.id) =>
                 ~records'[j].exists
    ]_vars

\* C17: a cleanup cycle passes over every job that is still within its time:
\* a record with a known status below DONE, a timestamp, a timeout and
\* now - timestamp < timeout is left as it is, with its working directory,
\* pinned or not and whatever its expiration.
C17_RunningSkipped ==
    [][ev'.op = "clean" =>
          \A j \in JobIds :
             (/\ records[j].exists
              /\ records[j].status \in InFlight
              /\ records[j].timestamp # Absent
              /\ records[j].timeout # Absent
              /\ now - records[j].timestamp < records[j].timeout * TicksPerSec) =>
                 /\ records'[j] = records[j]
                 /\ dirs'[j] = dirs[j]
    ]_vars

\* C18: a record whose status is no member of the status enum does not stop
\* the cleanup cycle, and when it has a timestamp the cycle removes it exactly
\* when it is not pinned and now - timestamp >= its expiration (its own, or
\* the server's default), whatever its timeout.
C18_LegacyByExpirationOnly ==
    [][(ev'.op = "clean" /\ ev'.res = "") =>
          \A j \in JobIds :
             (/\ records[j].exists
              /\ records[j].status \notin StatusNames
              /\ records[j].timestamp # Absent) =>
                 (~records'[j].exists <=>
                     /\ ~records[j].pinned
                     /\ Aged(records[j], IF records[j].expiration = Absent
                                         THEN expire_default ELSE records[j].expiration))
    ]_vars

\* C19: in both modes the record of a job is in the store when its unit goes
\* to the pool, so that every status write of a worker comes after the write
\* of the accepted record: a worker only ever writes for a job whose execute
\* has logged the request.
C19_RecordBeforeSubmission ==
    [][\A j \in JobIds :
          /\ (wstate[j] = "none" /\ wstate'[j] = "queued") =>
                /\ j \in used'
                /\ records'[j].exists
                /\ records'[j].timeout = req'[j].timeout
          /\ (wstate[j] # "none" /\ wstate'[j] # wstate[j]) =>
                /\ j \in used
                /\ wstate[j] \in {"queued", "running"}
    ]_vars

\* a worker has written 'Task started' to the record its execute had logged
C19_Witness ==
    \E j \in JobIds :
        /\ wstate[j] = "running"
        /\ records[j].exists
        /\ records[j].message = "Task started"
        /\ records[j].timeout = req[j].timeout

\* C20: a working directory never outlives its record: once delete_results or
\* a cleanup cycle has deleted the record of a job, there is no working
\* directory of that job, also when the removal of the directory has raised
\* and when the job's worker is still running.
C20_NoDirWithoutRecord ==
    \A j \in JobIds :
        (j \in used /\ ~records[j].exists) => ~dirs[j]

\* C21: what delete_results does depends on the record's existence and status
\* alone: every record whose status is terminal, or is no member of the status
\* enum, is deleted and True is returned, whatever its pinned flag, timestamp,
\* timeout and expiration; a record with a status below DONE is refused, pinned
\* or not.
C21_DeleteIgnoresPinned ==
    [][(ev'.op = "delete" /\ ev'.id # NoUuid /\ records[ev'.id].exists) =>
          LET rec == records[ev'.id] IN
          /\ (rec.status \in Terminal \/ rec.status \notin StatusNames) =>
                /\ ev'.res = "True" /\ ev'.http = 200
                /\ ~records'[ev'.id].exists
          /\ rec.status \in InFlight =>
                /\ ev'.res = "False"
                /\ records' = records
    ]_vars

\* a delete has just removed a pinned record
C21_Witness ==
    /\ ev.op = "delete" /\ ev.res = "True" /\ ev.pinned
    /\ ~records[ev.id].exists

====
